---- MODULE Spec2Model ----
(***************************************************************************)
(* archive-docker.py: the build-matrix driver (build_all, main) and the    *)
(* stage functions it calls, one action per external tool invocation.      *)
(* The external tools (make, buildah, podman) are modelled by their effect *)
(* on the local store and by an exit status chosen by the environment.     *)
(***************************************************************************)
EXTENDS Naturals, Sequences, FiniteSets

\* ------------------------------------------------------------------ bounds
MaxDates == 2
MaxCells == 4
MaxRuns == 2

\* ------------------------------------------------------- program constants
\* the architecture names passed on as they are
ARCH_MAP_Identity ==
    [a \in {"amd64", "386", "arm64", "arm", "ppc64le"} |-> a]

\* lines 14-20
ARCH_MAP ==
    [a \in {"amd64", "386", "arm64", "arm", "ppc64le"} |->
        CASE a = "amd64" -> "x86_64"
          [] a = "386" -> "i586"
          [] a = "arm64" -> "aarch64"
          [] a = "arm" -> "armh"
          [] a = "ppc64le" -> "ppc64le"]

\* parse_args, lines 261-265
all_arches == {"amd64", "386", "arm64", "arm", "ppc64le"}
default_arches == {"amd64", "arm64"}
all_branches == {"p9", "p10", "sisyphus"}
default_branches == {"p10", "sisyphus"}
all_stages == {"build_tarball", "build_image", "push", "clean", "test"}
\* the date arguments the runs are given
DateArgs == {"2024-01-15", "2024-01-16"}
\* further well-formed dates, and texts that are not dates
MoreDates == {"2024-02-29", "2019-12-31"}
BadDates == {"2024-13-45", "2023-02-29", "15.01.2024"}
\* args.dates when --dates is not given (nargs="+" never yields an empty
\* list, so the empty sequence is free to stand for None)
None == <<>>

\* the four commands of test(): three greps and the apt-get round trip
NumTestCommands == 4

\* ---------------------------------------------------------------- helpers
Range(s) == {s[i] : i \in DOMAIN s}

\* ------------------------------------------------- the text of a date
\* the characters of the date arguments
Chars(d) ==
    CASE d = "2024-01-15" -> <<"2", "0", "2", "4", "-", "0", "1", "-", "1", "5">>
      [] d = "2024-01-16" -> <<"2", "0", "2", "4", "-", "0", "1", "-", "1", "6">>
      [] d = "2024-02-29" -> <<"2", "0", "2", "4", "-", "0", "2", "-", "2", "9">>
      [] d = "2019-12-31" -> <<"2", "0", "1", "9", "-", "1", "2", "-", "3", "1">>
      [] d = "2024-13-45" -> <<"2", "0", "2", "4", "-", "1", "3", "-", "4", "5">>
      [] d = "2023-02-29" -> <<"2", "0", "2", "3", "-", "0", "2", "-", "2", "9">>
      [] d = "15.01.2024" -> <<"1", "5", ".", "0", "1", ".", "2", "0", "2", "4">>

DigitChars == <<"0", "1", "2", "3", "4", "5", "6", "7", "8", "9">>
IsDigit(c) == c \in Range(DigitChars)
DigitOf(c) == (CHOOSE i \in DOMAIN DigitChars : DigitChars[i] = c) - 1
\* the number a run of digits spells
RECURSIVE Number(_)
Number(cs) ==
    IF cs = <<>> THEN 0
    ELSE 10 * Number(SubSeq(cs, 1, Len(cs) - 1)) + DigitOf(cs[Len(cs)])
\* the decimal digits of n, at least width of them
RECURSIVE Digits(_, _)
Digits(n, width) ==
    (IF n >= 10 \/ width > 1
     THEN Digits(n \div 10, IF width > 1 THEN width - 1 ELSE 1)
     ELSE <<>>) \o <<DigitChars[(n % 10) + 1]>>

IsLeap(y) == (y % 4 = 0 /\ y % 100 # 0) \/ y % 400 = 0
DaysIn(y, m) ==
    IF m = 2 THEN (IF IsLeap(y) THEN 29 ELSE 28)
    ELSE IF m \in {4, 6, 9, 11} THEN 30 ELSE 31

\* what a call that raised ValueError returns
ValueError == <<>>

\* datetime.date.fromisoformat: YYYY-MM-DD of a day that exists, as
\* <<year, month, day>>
fromisoformat(cs) ==
    IF /\ Len(cs) = 10
       /\ cs[5] = "-" /\ cs[8] = "-"
       /\ \A i \in {1, 2, 3, 4, 6, 7, 9, 10} : IsDigit(cs[i])
    THEN LET y == Number(SubSeq(cs, 1, 4))
             m == Number(SubSeq(cs, 6, 7))
             d == Number(SubSeq(cs, 9, 10))
         IN IF y >= 1 /\ m \in 1..12 /\ d \in 1..DaysIn(y, m)
            THEN <<y, m, d>>
            ELSE ValueError
    ELSE ValueError

\* date.strftime("%Y/%m/%d")
strftime(ymd) ==
    Digits(ymd[1], 1) \o <<"/">> \o Digits(ymd[2], 2) \o <<"/">>
        \o Digits(ymd[3], 2)

\* the date checked but passed on as it was given
apt_dateAsGiven(d) ==
    IF fromisoformat(Chars(d)) = ValueError THEN ValueError ELSE Chars(d)

\* apt_date, lines 23-24
apt_date(d) ==
    IF fromisoformat(Chars(d)) = ValueError THEN ValueError
    ELSE strftime(fromisoformat(Chars(d)))

\* one line of the source list: its four words, the URL by its components
SourceLine(br, path, id) ==
    <<"rpm",
      <<"http://ftp.altlinux.org/pub/distributions/archive", br, "date", path>>,
      id, "classic">>

\* str.lstrip on a text kept by its lines: the leading empty lines go
RECURSIVE lstrip(_)
lstrip(text) ==
    IF text # <<>> /\ text[1] = <<>> THEN lstrip(Tail(text)) ELSE text

\* generate_source_list, lines 27-33: the lines of the text, each ended by a
\* newline
generate_source_list(a, br, d) ==
    IF apt_date(d) = ValueError THEN ValueError
    ELSE lstrip(<< <<>>,
                   SourceLine(br, apt_date(d), ARCH_MAP[a]),
                   SourceLine(br, apt_date(d), "noarch") >>)

\* the iteration orders of a set (Python iterates a set in an order the
\* program does not choose)
Orders(S) ==
    {s \in [1..Cardinality(S) -> S] : Range(s) = S}

\* argparse nargs="+": a non-empty list, repeats allowed
DateLists ==
    UNION {[1..n -> DateArgs] : n \in 1..MaxDates}

\* every text a run can be given as a date
AllDates == DateArgs \cup MoreDates \cup BadDates
\* the manifest and image coordinates, the registry, organization and name
\* being the same for all
Pairs == all_branches \X AllDates
ImageCoords == all_branches \X AllDates \X all_arches

NoManifest == [exists |-> FALSE, entries |-> <<>>]

VARIABLES
    argv,        \* the option values argparse collected, defaults filled in
    arches,      \* args.arches, in the order the set is iterated
    branches,    \* args.branches, in the order the set is iterated
    dates,       \* args.dates (a list)
    stages,      \* args.stages
    packages,    \* whether --packages was given
    pc,          \* the next external call or loop head of main/build_all
    bi, di, ai,  \* positions of the three loops of build_all
    ti,          \* position in the commands list of test()
    rc,          \* exit status of the last external call
    called,      \* the last external call
    calls,       \* every external call of this run, in order
    manifests,   \* local manifest lists, by (branch, date)
    images,      \* local images, by (branch, date, arch)
    containers,  \* buildah working containers, by arch
    tarballs,    \* CWD/<arch>/alt.tar.xz: the cell it was built for
    aptFiles,    \* apt.conf (whether written) and the text of source.list
    run,         \* which invocation of the program this is
    ok,          \* no call of this run, best-effort removals aside, exited nonzero
    before,      \* the manifests as they were when this run started
    entry,       \* the rest of the store as it was when this run started
    halted,      \* the run before this one ended on an uncaught exception
    same,        \* this run was given the arguments of the run before it
    snap         \* the store as it was when build_all last returned

vars == <<argv, arches, branches, dates, stages, packages, pc, bi, di, ai, ti, rc,
          called, calls, manifests, images, containers, tarballs, aptFiles, run,
          ok, before, entry, halted, same, snap>>

args == <<argv, arches, branches, dates, stages, packages>>
store == <<manifests, images, containers, tarballs, aptFiles>>
\* the store but for the manifests
rest == <<images, containers, tarballs, aptFiles>>
history == <<run, before, entry, halted, same, snap>>

\* ------------------------------------------------------------- positions
branch == branches[bi]
date == dates[di]
arch == arches[ai]
\* build_all line 234 and 238: the manifest and image coordinates
manifest == <<branch, date>>
image == <<branch, date, arch>>
\* the number of the (branch, date) iteration build_all is in
PairNo == (bi - 1) * Len(dates) + di

NoCell == <<"", "">>

NoFiles == [conf |-> FALSE, list |-> <<>>]

\* a record of the log: the call, the cell or pair it was made for, and what
\* else it was given: ARCH and BRANCH for make, the (branch, date) the
\* tarball that buildah add imports was built for, the text piped to cat,
\* the image podman run starts
Call(op, withArch, data) ==
    [op |-> op,
     branch |-> IF pc = "clean" THEN "" ELSE branch,
     date |-> IF pc = "clean" THEN "" ELSE date,
     arch |-> IF withArch THEN arch ELSE "",
     pair |-> IF pc = "clean" THEN 0 ELSE PairNo,
     data |-> data]

\* where the program goes when its make call returns without raising
RunMakeUnchecked(status, next) == next

\* make, lines 51-63: subprocess.run(..., check=True); a nonzero exit raises
\* CalledProcessError, which nothing catches
RunMake(status, next) == IF status = 0 THEN next ELSE "failed"

\* where the program goes when a removal that fails raises
RunQuietChecked(status, next) == IF status = 0 THEN next ELSE "failed"

\* remove_manifest, remove_image, remove_container, lines 73-111:
\* subprocess.run(..., check=False), the exit status dropped
RunQuiet(status, next) == next

\* where the program goes when a test command returns without raising
RunTestUnchecked(status, next) == next

\* test, lines 201-205: subprocess.run(..., check=True)
RunTest(status, next) == IF status = 0 THEN next ELSE "failed"

\* ------------------------------------------------------------------ Init
TypeArgs ==
    /\ arches \in UNION {Orders(S) : S \in SUBSET default_arches}
    /\ branches \in UNION {Orders(S) : S \in SUBSET default_branches}
    /\ dates \in DateLists
    /\ stages \in SUBSET all_stages
    /\ packages \in BOOLEAN
    /\ Len(arches) * Len(branches) * Len(dates) <= MaxCells

Start ==
    /\ pc = "for_pair"
    /\ bi = 1
    /\ di = 0
    /\ ai = 0
    /\ ti = 0
    /\ rc = 0
    /\ called = ""
    /\ calls = <<>>
    /\ ok = TRUE

\* a machine on which the program has not run yet
FreshStore ==
    /\ manifests = [p \in Pairs |-> NoManifest]
    /\ images = {}
    /\ containers = {}
    /\ tarballs = [a \in all_arches |-> NoCell]
    /\ aptFiles = NoFiles

\* the architectures of a manifest's entries, in order
EntryArches(m) == [i \in DOMAIN m.entries |-> m.entries[i][1]]

NoSnap ==
    [valid |-> FALSE, ok |-> FALSE, manifests |-> [p \in Pairs |-> {}],
     images |-> {}, containers |-> {}]

Snapshot ==
    [valid |-> TRUE, ok |-> ok,
     manifests |-> [p \in Pairs |-> Range(EntryArches(manifests[p]))],
     images |-> images, containers |-> containers]

\* a command line that selects what the run is given and skips nothing
Given ==
    [arches |-> arches, skip_arches |-> <<>>,
     branches |-> branches, skip_branches |-> <<>>,
     stages |-> (CHOOSE l \in Orders(stages) : TRUE), skip_stages |-> <<>>,
     dates |-> dates, packages |-> packages]

Init ==
    /\ TypeArgs
    /\ argv = Given
    /\ Start
    /\ FreshStore
    /\ run = 1
    /\ before = manifests
    /\ entry = rest
    /\ halted = FALSE
    /\ same = FALSE
    /\ snap = NoSnap

\* ------------------------------------------------- build_all: the loops
\* the push indented into the loop over the architectures
AfterImagePushPerCell ==
    IF "test" \in stages THEN "test"
    ELSE IF "push" \in stages THEN "push" ELSE "for_arch"

\* the Image Builder run whether or not build_image was requested
AfterTarballUnguarded == "remove_image"

\* lines 239-244: the stages of one cell, in the order the ifs are written
AfterImage == IF "test" \in stages THEN "test" ELSE "for_arch"
AfterTarball == IF "build_image" \in stages THEN "remove_image" ELSE AfterImage

\* the tarball never built, requested or not
CellStartWithoutTarball == AfterTarball

\* the tarball built whether or not build_tarball was requested
CellStartUnguarded == "build_tarball"

CellStart == IF "build_tarball" \in stages THEN "build_tarball" ELSE AfterTarball
\* the manifest removed whether or not build_image was requested
PairStartUnguarded == "remove_manifest"

\* the driver without its lines 235-236
PairStartKeepsManifest == "for_arch"

\* lines 235-237
PairStart == IF "build_image" \in stages THEN "remove_manifest" ELSE "for_arch"
\* lines 245-246
AfterArches == IF "push" \in stages THEN "push" ELSE "for_pair"

\* an external call: its exit status, and its place in the log
Exec(op, withArch, status, data) ==
    /\ rc' = status
    /\ called' = op
    /\ calls' = Append(calls, Call(op, withArch, data))

\* a best-effort call (check=False, output discarded)
BestEffort(op, withArch, status) ==
    /\ Exec(op, withArch, status, NoCell)
    /\ ok' = ok

\* any other call
Required(op, withArch, status, data) ==
    /\ Exec(op, withArch, status, data)
    /\ ok' = (ok /\ status = 0)

\* for branch in branches: for date in dates (lines 232-233), and the return
\* of build_all into main
ForPair ==
    /\ pc = "for_pair"
    /\ IF bi <= Len(branches) /\ dates = None
       THEN \* TypeError: 'NoneType' object is not iterable
            /\ pc' = "failed"
            /\ UNCHANGED <<bi, di>>
       ELSE IF bi <= Len(branches) /\ di < Len(dates)
       THEN /\ di' = di + 1
            /\ bi' = bi
            /\ pc' = PairStart
       ELSE IF bi < Len(branches)
       THEN /\ bi' = bi + 1
            /\ di' = 1
            /\ pc' = PairStart
       ELSE /\ pc' = "returned"
            /\ UNCHANGED <<bi, di>>
    /\ ai' = 0
    /\ UNCHANGED <<args, store, ti, rc, called, calls, history, ok>>

\* for arch in arches (line 237)
ForArch ==
    /\ pc = "for_arch"
    /\ IF ai < Len(arches)
       THEN /\ ai' = ai + 1
            /\ pc' = CellStart
       ELSE /\ ai' = ai
            /\ pc' = AfterArches
    /\ UNCHANGED <<args, store, bi, di, ti, rc, called, calls, history, ok>>

\* main without its last two lines
ReturnedWithoutClean ==
    /\ pc = "returned"
    /\ pc' = "done"
    /\ snap' = Snapshot
    /\ UNCHANGED <<args, store, bi, di, ai, ti, rc, called, calls, run, before,
                   entry, halted, same, ok>>

\* main, lines 368-369
Returned ==
    /\ pc = "returned"
    /\ pc' = IF "clean" \in stages THEN "clean" ELSE "done"
    /\ snap' = Snapshot
    /\ UNCHANGED <<args, store, bi, di, ai, ti, rc, called, calls, run, before,
                   entry, halted, same, ok>>

\* ------------------------------------------------------- remove_manifest
\* the removal that leaves the manifest where it is
RemoveManifestKeeps ==
    /\ pc = "remove_manifest"
    /\ BestEffort("buildah manifest rm", FALSE, 1)
    /\ pc' = "for_arch"
    /\ UNCHANGED <<args, store, bi, di, ai, ti, history>>

\* lines 73-84, called at line 236
RemoveManifest ==
    /\ pc = "remove_manifest"
    /\ BestEffort("buildah manifest rm", FALSE,
                  IF manifests[manifest].exists THEN 0 ELSE 1)
    /\ manifests' = [manifests EXCEPT ![manifest] = NoManifest]
    /\ pc' = RunQuiet(IF manifests[manifest].exists THEN 0 ELSE 1, "for_arch")
    /\ UNCHANGED <<args, images, containers, tarballs, aptFiles, bi, di, ai,
                   ti, history>>

\* --------------------------------------------------------- build_tarball
\* create_apt_files, mkdir, make: the files are written before make runs
BuildTarball ==
    /\ pc = "build_tarball"
    /\ IF generate_source_list(arch, branch, date) = ValueError
       THEN \* apt.conf is written, then apt_date raises
            /\ aptFiles' = [aptFiles EXCEPT !.conf = TRUE]
            /\ pc' = "failed"
            /\ UNCHANGED <<tarballs, rc, called, calls, ok>>
       ELSE /\ aptFiles' = [conf |-> TRUE,
                            list |-> generate_source_list(arch, branch, date)]
            /\ \E status \in {0, 1} :
                  /\ Required("make", TRUE, status, <<ARCH_MAP[arch], branch>>)
                  /\ tarballs' = IF status = 0
                                 THEN [tarballs EXCEPT ![arch] = manifest]
                                 ELSE tarballs
                  /\ pc' = RunMake(status, AfterTarball)
    /\ UNCHANGED <<args, manifests, images, containers, bi, di, ai, ti, history>>

\* --------------------------------------------------------- buildah_build
RemoveImage ==
    /\ pc = "remove_image"
    /\ BestEffort("buildah image rm", TRUE, IF image \in images THEN 0 ELSE 1)
    /\ images' = images \ {image}
    /\ pc' = RunQuiet(IF image \in images THEN 0 ELSE 1, "remove_container")
    /\ UNCHANGED <<args, manifests, containers, tarballs, aptFiles, bi, di,
                   ai, ti, history>>

RemoveContainer ==
    /\ pc = "remove_container"
    /\ BestEffort("buildah rm", TRUE, IF arch \in containers THEN 0 ELSE 1)
    /\ containers' = containers \ {arch}
    /\ pc' = RunQuiet(IF arch \in containers THEN 0 ELSE 1, "from")
    /\ UNCHANGED <<args, manifests, images, tarballs, aptFiles, bi, di, ai,
                   ti, history>>

\* buildah from --arch <arch> --name <container> scratch
From ==
    /\ pc = "from"
    /\ \E status \in {0, 1} :
          /\ arch \in containers => status = 1
          /\ Required("buildah from", TRUE, status, NoCell)
          /\ containers' = IF status = 0 THEN containers \cup {arch}
                           ELSE containers
    /\ pc' = "add"
    /\ UNCHANGED <<args, manifests, images, tarballs, aptFiles, bi, di, ai,
                   ti, history>>

\* buildah add <container> alt.tar.xz /, in CWD/<arch>
Add ==
    /\ pc = "add"
    /\ \E status \in {0, 1} :
          /\ (arch \notin containers \/ tarballs[arch] = NoCell) => status = 1
          /\ Required("buildah add", TRUE, status, tarballs[arch])
    /\ pc' = "limits"
    /\ UNCHANGED <<args, store, bi, di, ai, ti, history>>

\* run_command_in_container and buildah config: a command on the working
\* container, its exit status dropped
InContainer(here, op, next) ==
    /\ pc = here
    /\ \E status \in {0, 1} :
          /\ arch \notin containers => status = 1
          /\ Required(op, TRUE, status, NoCell)
    /\ pc' = next
    /\ UNCHANGED <<args, store, bi, di, ai, ti, history>>

Limits == InContainer("limits", "buildah run true > limits", "srclist")

\* the package steps whether or not a package list was given
AfterSrcListAlways == "apt_update"

\* line 156
AfterSrcList == IF packages THEN "apt_update" ELSE "config"

\* lines 149-154: the input is computed before the command is run
SrcList ==
    /\ pc = "srclist"
    /\ IF generate_source_list(arch, branch, date) = ValueError
       THEN /\ pc' = "failed"
            /\ UNCHANGED <<rc, called, calls, ok>>
       ELSE /\ \E status \in {0, 1} :
                  /\ arch \notin containers => status = 1
                  /\ Required("buildah run cat > alt.list", TRUE, status,
                              generate_source_list(arch, branch, date))
            /\ pc' = AfterSrcList
    /\ UNCHANGED <<args, store, bi, di, ai, ti, history>>

AptUpdate == InContainer("apt_update", "buildah run apt-get update", "apt_install")

AptInstall == InContainer("apt_install", "buildah run apt-get install", "apt_purge")

AptPurge == InContainer("apt_purge", "buildah run rm -f", "config")

Config == InContainer("config", "buildah config", "commit")

\* buildah commit --manifest <manifest> <container> <image>, without --rm
CommitWithoutRm ==
    /\ pc = "commit"
    /\ \E status \in {0, 1} :
          /\ arch \notin containers => status = 1
          /\ Required("buildah commit", TRUE, status, NoCell)
          /\ IF status = 0
             THEN /\ images' = images \cup {image}
                  /\ manifests' =
                        [manifests EXCEPT ![manifest] =
                            [exists |-> TRUE,
                             entries |-> Append(@.entries, <<arch, run>>)]]
             ELSE UNCHANGED <<images, manifests>>
    /\ pc' = AfterImage
    /\ UNCHANGED <<args, containers, tarballs, aptFiles, bi, di, ai, ti,
                   history>>

\* buildah commit --rm --manifest <manifest> <container> <image>
Commit ==
    /\ pc = "commit"
    /\ \E status \in {0, 1} :
          /\ arch \notin containers => status = 1
          /\ Required("buildah commit", TRUE, status, NoCell)
          /\ IF status = 0
             THEN /\ containers' = containers \ {arch}
                  /\ images' = images \cup {image}
                  /\ manifests' =
                        [manifests EXCEPT ![manifest] =
                            [exists |-> TRUE,
                             entries |-> Append(@.entries, <<arch, run>>)]]
             ELSE UNCHANGED <<containers, images, manifests>>
    /\ pc' = AfterImage
    /\ UNCHANGED <<args, tarballs, aptFiles, bi, di, ai, ti, history>>

\* ------------------------------------------------------------------ test
\* podman run --rm <image> <command>, for each of the commands in turn
Test ==
    /\ pc = "test"
    /\ IF apt_date(date) = ValueError
       THEN \* line 196: the commands are built before any of them is run
            /\ pc' = "failed"
            /\ UNCHANGED <<ti, rc, called, calls, ok>>
       ELSE \E status \in {0, 1} :
          /\ image \notin images => status = 1
          /\ Required("podman run", TRUE, status, image)
          /\ IF status = 0 /\ ti + 1 < NumTestCommands
             THEN /\ ti' = ti + 1
                  /\ pc' = "test"
             ELSE /\ ti' = IF status = 0 THEN 0 ELSE ti
                  /\ pc' = RunTest(status, "for_arch")
    /\ UNCHANGED <<args, store, bi, di, ai, history>>

\* ----------------------------------------------------------- podman_push
Push ==
    /\ pc = "push"
    /\ \E status \in {0, 1} :
          /\ ~manifests[manifest].exists => status = 1
          /\ Required("podman manifest push", FALSE, status, NoCell)
    /\ pc' = "for_pair"
    /\ UNCHANGED <<args, store, bi, di, ai, ti, history>>

\* ----------------------------------------------------------------- clean
\* podman system prune -af: every unused image and manifest list goes
Clean ==
    /\ pc = "clean"
    /\ \E status \in {0, 1} :
          /\ Required("podman system prune", FALSE, status, NoCell)
          /\ IF status = 0
             THEN /\ images' = {}
                  /\ manifests' = [p \in Pairs |-> NoManifest]
             ELSE UNCHANGED <<images, manifests>>
    /\ pc' = "done"
    /\ UNCHANGED <<args, containers, tarballs, aptFiles, bi, di, ai, ti, history>>

\* ------------------------------------------------------------------ Next
Next ==
    \/ ForPair
    \/ ForArch
    \/ Returned
    \/ RemoveManifest
    \/ BuildTarball
    \/ RemoveImage
    \/ RemoveContainer
    \/ From
    \/ Add
    \/ Limits
    \/ SrcList
    \/ AptUpdate
    \/ AptInstall
    \/ AptPurge
    \/ Config
    \/ Commit
    \/ Test
    \/ Push
    \/ Clean

Spec == Init /\ [][Next]_vars

\* ------------------------------------------------- the program run again
\* the arguments of the runs that follow one another on the same machine:
\* one branch and one date, the tarball and the image built in every run
RerunArches == UNION {Orders(S) : S \in SUBSET default_arches \ {{}}}
RerunStages ==
    {S \in SUBSET all_stages : {"build_tarball", "build_image"} \subseteq S}

TypeArgsRerun ==
    /\ arches \in RerunArches
    /\ branches = <<"p10">>
    /\ dates = <<"2024-01-15">>
    /\ stages \in RerunStages
    /\ packages \in BOOLEAN

InitRerun ==
    /\ TypeArgsRerun
    /\ argv = Given
    /\ Start
    /\ FreshStore
    /\ run = 1
    /\ before = manifests
    /\ entry = rest
    /\ halted = FALSE
    /\ same = FALSE
    /\ snap = NoSnap

\* the process has exited (normally or on an uncaught exception) and the
\* program is started again; the store is what the last run left
StartRun ==
    /\ pc \in {"done", "failed"}
    /\ run < MaxRuns
    /\ run' = run + 1
    /\ arches' \in RerunArches
    /\ stages' \in RerunStages
    /\ packages' \in BOOLEAN
    /\ UNCHANGED <<branches, dates>>
    /\ argv' = [argv EXCEPT !.arches = arches',
                            !.stages = (CHOOSE l \in Orders(stages') : TRUE),
                            !.packages = packages']
    /\ pc' = "for_pair"
    /\ bi' = 1
    /\ di' = 0
    /\ ai' = 0
    /\ ti' = 0
    /\ rc' = 0
    /\ called' = ""
    /\ calls' = <<>>
    /\ ok' = TRUE
    /\ before' = manifests
    /\ entry' = rest
    /\ halted' = (pc = "failed")
    /\ same' = (/\ Range(arches') = Range(arches)
                /\ stages' = stages
                /\ packages' = packages)
    /\ snap' = IF pc = "failed" THEN NoSnap ELSE snap
    /\ UNCHANGED store

NextRerun == Next \/ StartRun

SpecRerun == InitRerun /\ [][NextRerun]_vars

\* ------------------------------------- the program run again, any stages
\* runs of one architecture and one date of branch p10, with any stage set,
\* each on the store the run before it left
PartialArches == {<<a>> : a \in default_arches}
PartialDates == {<<d>> : d \in DateArgs}
\* --packages is read by buildah_build alone
PartialPackages(S) == IF "build_image" \in S THEN BOOLEAN ELSE {FALSE}

InitPartial ==
    /\ arches \in PartialArches
    /\ branches = <<"p10">>
    /\ dates \in PartialDates
    /\ stages \in SUBSET all_stages
    /\ packages \in PartialPackages(stages)
    /\ argv = Given
    /\ Start
    /\ FreshStore
    /\ run = 1
    /\ before = manifests
    /\ entry = rest
    /\ halted = FALSE
    /\ same = FALSE
    /\ snap = NoSnap

StartPartial ==
    /\ pc \in {"done", "failed"}
    /\ run < MaxRuns
    /\ run' = run + 1
    /\ arches' \in PartialArches
    /\ dates' \in PartialDates
    /\ stages' \in SUBSET all_stages
    /\ packages' \in PartialPackages(stages')
    /\ UNCHANGED branches
    /\ argv' = [argv EXCEPT !.arches = arches',
                            !.dates = dates',
                            !.stages = (CHOOSE l \in Orders(stages') : TRUE),
                            !.packages = packages']
    /\ pc' = "for_pair"
    /\ bi' = 1
    /\ di' = 0
    /\ ai' = 0
    /\ ti' = 0
    /\ rc' = 0
    /\ called' = ""
    /\ calls' = <<>>
    /\ ok' = TRUE
    /\ before' = manifests
    /\ entry' = rest
    /\ halted' = (pc = "failed")
    /\ same' = (/\ arches' = arches
                /\ dates' = dates
                /\ stages' = stages
                /\ packages' = packages)
    /\ snap' = IF pc = "failed" THEN NoSnap ELSE snap
    /\ UNCHANGED store

NextPartial == Next \/ StartPartial

SpecPartial == InitPartial /\ [][NextPartial]_vars

\* ------------------------------------------------------------ parse_args
\* the choices= of the options (lines 300, 307, 315, 322, 329, 336)
ArchChoices == all_arches
BranchChoices == all_branches
SkipBranchChoices == all_arches
StageChoices == all_stages

\* argparse ends the program (usage error, exit status 2) on a value that is
\* not among the choices of its option
Accepted ==
    /\ Range(argv.arches) \subseteq ArchChoices
    /\ Range(argv.skip_arches) \subseteq ArchChoices
    /\ Range(argv.branches) \subseteq BranchChoices
    /\ Range(argv.skip_branches) \subseteq SkipBranchChoices
    /\ Range(argv.stages) \subseteq StageChoices
    /\ Range(argv.skip_stages) \subseteq StageChoices

\* parse_args, lines 344-350, and the call of build_all
ParseArgs ==
    /\ pc = "parse_args"
    /\ IF Accepted
       THEN /\ arches' \in Orders(Range(argv.arches) \ Range(argv.skip_arches))
            /\ branches' \in
                  Orders(Range(argv.branches) \ Range(argv.skip_branches))
            /\ stages' = Range(argv.stages) \ Range(argv.skip_stages)
            /\ dates' = argv.dates
            /\ packages' = argv.packages
            /\ pc' = "for_pair"
       ELSE /\ pc' = "rejected"
            /\ UNCHANGED <<arches, branches, dates, stages, packages>>
    /\ UNCHANGED <<argv, store, bi, di, ai, ti, rc, called, calls, history, ok>>

\* the command lines the program is started with
CliArches ==
    {<<a>> : a \in all_arches \cup {"riscv64"}}
        \cup {<<"amd64", "arm64">>, <<"arm64", "arm64">>}
CliSkipArches == {<<>>, <<"arm", "amd64">>}
CliBranches == {<<"p9">>, <<"sisyphus">>, <<"p10", "sisyphus">>}
CliSkipBranches == {<<>>, <<"p10">>, <<"amd64">>}
CliStages ==
    {<<"build_tarball", "build_image", "push", "clean", "test">>,
     <<"build_image", "build_tarball">>, <<"test">>, <<"push", "build_image">>}
CliSkipStages == {<<>>, <<"test", "clean">>}
CliDates ==
    {None} \cup {<<d>> : d \in {"2024-01-15"} \cup MoreDates \cup BadDates}

CommandLines ==
    [arches : CliArches, skip_arches : CliSkipArches,
     branches : CliBranches, skip_branches : CliSkipBranches,
     stages : CliStages, skip_stages : CliSkipStages,
     dates : CliDates, packages : BOOLEAN]

\* the process at the first line of main
InitCli ==
    /\ argv \in CommandLines
    /\ pc = "parse_args"
    /\ arches = <<>>
    /\ branches = <<>>
    /\ dates = None
    /\ stages = {}
    /\ packages = FALSE
    /\ bi = 1
    /\ di = 0
    /\ ai = 0
    /\ ti = 0
    /\ rc = 0
    /\ called = ""
    /\ calls = <<>>
    /\ ok = TRUE
    /\ FreshStore
    /\ run = 1
    /\ before = manifests
    /\ entry = rest
    /\ halted = FALSE
    /\ same = FALSE
    /\ snap = NoSnap

NextCli == ParseArgs \/ Next

SpecCli == InitCli /\ [][NextCli]_vars

\* ---------------------------------------------------------------- claims
Last == calls[Len(calls)]

\* the external-tool steps of the Image Builder whose failure the claims
\* call fatal (the two best-effort removals are not among them)
ImageBuilderSteps ==
    {"buildah from", "buildah add", "buildah run true > limits",
     "buildah run cat > alt.list", "buildah run apt-get update",
     "buildah run apt-get install", "buildah run rm -f", "buildah config",
     "buildah commit"}

\* the run was aborted by an uncaught exception, and an aborted run makes no
\* further call
Aborted == pc = "failed"
AbortIsFinal == [][pc # "failed"]_vars

\* C1: whenever an external-tool step of the Image Builder has just exited
\* nonzero, the run is aborted (no later step, test, push, clean or cell).
C1_ImageBuilderFailureAborts ==
    (called \in ImageBuilderSteps /\ rc # 0) => Aborted

\* C2: whenever push has just been invoked in a run that also builds images,
\* the pushed manifest holds an image committed in this run for every
\* requested architecture.
C2_PushedManifestComplete ==
    (called = "podman manifest push" /\ "build_image" \in stages)
        => \A a \in Range(arches) :
              <<a, run>> \in Range(manifests[<<Last.branch, Last.date>>].entries)

\* C3: whenever the manifest push has just exited nonzero, the run is
\* aborted (no later pair, no clean, a failed outcome).
C3_PushFailureAborts ==
    (called = "podman manifest push" /\ rc # 0) => Aborted

\* the calls made so far for the (branch, date) iteration, or the cell, the
\* program is in
CallsOfPair == {i \in DOMAIN calls : calls[i].pair = PairNo}
CallsOfCell == {i \in CallsOfPair : calls[i].arch = arch}

TestFailed == called = "podman run" /\ rc # 0
MakeFailed == called = "make" /\ rc # 0

\* C4: once a Verifier check has exited nonzero the run is aborted with that
\* check as its last call: no later check, no push for the (branch, date)
\* iteration of that cell, no later cell, push or clean; and an aborted run
\* never takes another step.
C4_TestFailureAborts ==
    /\ [](TestFailed =>
            /\ Aborted
            /\ Last.op = "podman run"
            /\ \A i \in CallsOfPair : calls[i].op # "podman manifest push")
    /\ AbortIsFinal

\* a check that is not the last one fails in a cell that is not the last
\* one, with push and clean requested
C4_Witness ==
    /\ TestFailed
    /\ Aborted
    /\ ti + 1 < NumTestCommands
    /\ ai < Len(arches)
    /\ PairNo < Len(branches) * Len(dates)
    /\ {"push", "clean"} \subseteq stages

\* C5: once make has exited nonzero in build_tarball the run is aborted with
\* that make as its last call: the Image Builder has made no call for the
\* cell (no tarball import), and no later cell, push or clean follows; and
\* an aborted run never takes another step.
C5_MakeFailureAborts ==
    /\ [](MakeFailed =>
            /\ Aborted
            /\ Last.op = "make"
            /\ \A i \in CallsOfCell : calls[i].op \notin ImageBuilderSteps)
    /\ AbortIsFinal

\* make fails in a cell that is not the last one, with every stage requested
C5_Witness ==
    /\ MakeFailed
    /\ Aborted
    /\ ai < Len(arches)
    /\ PairNo < Len(branches) * Len(dates)
    /\ stages = all_stages

\* the stage a call belongs to
StageOf(op) ==
    CASE op = "make" -> "build_tarball"
      [] op = "podman run" -> "test"
      [] op = "podman manifest push" -> "push"
      [] op = "podman system prune" -> "clean"
      [] OTHER -> "build_image"

Rank(stage) ==
    CASE stage = "build_tarball" -> 1
      [] stage = "build_image" -> 2
      [] stage = "test" -> 3
      [] stage = "push" -> 4
      [] stage = "clean" -> 5

CellStages == {"build_tarball", "build_image", "test"}
NumPairs == Len(branches) * Len(dates)

\* the stages that have made a call for architecture a in iteration k
StagesRun(k, a) ==
    {StageOf(calls[i].op) : i \in {j \in DOMAIN calls :
                                      calls[j].pair = k /\ calls[j].arch = a}}
Count(k, a, op) ==
    Cardinality({i \in DOMAIN calls :
                    calls[i].pair = k /\ calls[i].arch = a /\ calls[i].op = op})

\* the cell ran exactly the requested per-cell stages, each once
CellComplete(k, a) ==
    /\ StagesRun(k, a) = stages \cap CellStages
    /\ Count(k, a, "make") = IF "build_tarball" \in stages THEN 1 ELSE 0
    /\ Count(k, a, "buildah commit") = IF "build_image" \in stages THEN 1 ELSE 0
    /\ Count(k, a, "podman run") =
          IF "test" \in stages THEN NumTestCommands ELSE 0

\* the last call respects the fixed order with respect to every earlier one
\* (every prefix of the log is the log of a reachable state, so this orders
\* every two calls of the log)
LastInOrder ==
    \A i \in 1..(Len(calls) - 1) :
        /\ (calls[i].pair = Last.pair /\ calls[i].arch = Last.arch
                /\ Last.arch # "")
              => Rank(StageOf(calls[i].op)) <= Rank(StageOf(Last.op))
        /\ calls[i].op = "podman manifest push" => calls[i].pair # Last.pair
        /\ calls[i].op # "podman system prune"

\* C6: for every stage set, only requested stages make calls; the calls of a
\* cell come in the order build_tarball, build_image, test; nothing of a
\* (branch, date) iteration follows its push and nothing follows clean; and
\* a cell the driver has finished, and every cell of a run that returned
\* from build_all, has run exactly the requested per-cell stages.
C6_StagesInFixedOrder ==
    /\ \A i \in DOMAIN calls : StageOf(calls[i].op) \in stages
    /\ calls # <<>> => LastInOrder
    /\ (pc = "for_arch" /\ ai >= 1) => CellComplete(PairNo, arch)
    /\ pc \in {"returned", "clean", "done"} =>
          \A k \in 1..NumPairs : \A a \in Range(arches) : CellComplete(k, a)

\* a finished run of every stage over two architectures
C6_Witness ==
    /\ pc = "done"
    /\ stages = all_stages
    /\ Len(arches) = 2
    /\ NumPairs >= 1
    /\ CellComplete(1, arches[1]) /\ CellComplete(1, arches[2])
    /\ Last.op = "podman system prune"

Pushes(k) ==
    {i \in DOMAIN calls : calls[i].op = "podman manifest push" /\ calls[i].pair = k}
PushesOf(b, d) ==
    {i \in DOMAIN calls : /\ calls[i].op = "podman manifest push"
                          /\ calls[i].branch = b
                          /\ calls[i].date = d}

\* a push is made only when every architecture of its iteration has run its
\* requested per-cell stages
PushAfterEveryArch ==
    called = "podman manifest push" =>
        \A a \in Range(arches) : CellComplete(Last.pair, a)

Prunes == {i \in DOMAIN calls : calls[i].op = "podman system prune"}

\* C8: the prune call is only ever the last call of a run that is over,
\* build_all having gone through the whole matrix; and a run that finishes
\* with clean requested has made exactly one prune call (none otherwise),
\* whatever the size of the matrix.
C8_CleanOnceAtEnd ==
    /\ \A i \in Prunes : i = Len(calls) /\ pc = "done"
    /\ pc = "clean" => (bi >= Len(branches) /\ (branches # <<>> => di = Len(dates)))
    /\ pc = "done" =>
          Cardinality(Prunes) = IF "clean" \in stages THEN 1 ELSE 0

\* a finished run that cleaned after two pushed (branch, date) pairs
C8_Witness ==
    /\ pc = "done"
    /\ Cardinality(Prunes) = 1
    /\ NumPairs = 2
    /\ Pushes(1) # {} /\ Pushes(2) # {}
    /\ Len(arches) >= 1

\* the (branch, date) pairs this run has made a call for
Entered == {<<calls[i].branch, calls[i].date>> : i \in DOMAIN calls} \cap Pairs

\* C9: in a run that builds images, once the driver has started on a
\* (branch, date) whose manifest existed when the run began, every entry of
\* that manifest is one committed in this run, for an architecture of this
\* run: no entry of an earlier run is left.
C9_ManifestReset ==
    \A p \in Entered :
        ("build_image" \in stages /\ before[p].exists)
            => \A i \in DOMAIN manifests[p].entries :
                  /\ manifests[p].entries[i][2] = run
                  /\ manifests[p].entries[i][1] \in Range(arches)

\* the second run rebuilt one architecture over a manifest that held two
C9_Witness ==
    /\ run = 2
    /\ pc = "returned"
    /\ Len(before[manifest].entries) = 2
    /\ Len(arches) = 1
    /\ manifests[manifest].entries = <<<<arches[1], 2>>>>

\* the image coordinates of the cells of this run
CellsOfRun ==
    {c \in ImageCoords : /\ c[1] \in Range(branches)
                         /\ c[2] \in Range(dates)
                         /\ c[3] \in Range(arches)}

\* C10: when the program is run again with the arguments of the run before,
\* every per-cell stage requested and no call failing in either run, then at
\* the return of build_all the images of the run's cells, their working
\* containers and the entries of the run's manifests are what they were at
\* the return of build_all in the run before: every cell has its image, the
\* manifest has exactly one entry per architecture and no working container
\* of a cell exists.
C10_RerunIdempotent ==
    (/\ run >= 2
     /\ pc = "returned"
     /\ same
     /\ ok
     /\ snap.valid /\ snap.ok
     /\ CellStages \subseteq stages)
        => /\ images \cap CellsOfRun = snap.images \cap CellsOfRun
           /\ images \cap CellsOfRun = CellsOfRun
           /\ containers \cap Range(arches) = snap.containers \cap Range(arches)
           /\ containers \cap Range(arches) = {}
           /\ \A p \in Entered :
                 /\ Range(EntryArches(manifests[p])) = snap.manifests[p]
                 /\ manifests[p].exists
                 /\ Range(EntryArches(manifests[p])) = Range(arches)
                 /\ Len(manifests[p].entries) = Cardinality(Range(arches))

\* the second of two clean runs of every stage over two architectures
C10_Witness ==
    /\ run = 2
    /\ pc = "returned"
    /\ same
    /\ ok
    /\ snap.valid /\ snap.ok
    /\ stages = all_stages
    /\ Len(arches) = 2
    /\ Len(manifests[manifest].entries) = 2
    /\ containers = {}

\* the command line carries a configuration error: an architecture that is
\* not in the architecture table, a date that is not one, or no date
ConfigError ==
    \/ \E i \in DOMAIN argv.arches : argv.arches[i] \notin DOMAIN ARCH_MAP
    \/ argv.dates = None
    \/ \E i \in DOMAIN argv.dates : apt_date(argv.dates[i]) = ValueError

\* C11: a run given a configuration error makes no external call, and does
\* not go through to its end.
C11_ConfigErrorBeforeAnyCall ==
    ConfigError => (calls = <<>> /\ pc \notin {"returned", "clean", "done"})

\* the calls made so far for the cell the program is in
ChecksOfCell == {i \in CallsOfCell : calls[i].op = "podman run"}

\* C12: in a run of the test stage alone every call is a Verifier check, on
\* the image coordinate of its cell, and the driver goes from the head of
\* the architecture loop straight to the Verifier; when the image of the
\* cell does not exist, the first check of the cell exits nonzero and the run
\* is aborted with that check as its last call.
C12_TestOnly ==
    stages = {"test"} =>
        /\ \A i \in DOMAIN calls :
              /\ calls[i].op = "podman run"
              /\ calls[i].data = <<calls[i].branch, calls[i].date, calls[i].arch>>
        /\ pc \in {"for_pair", "for_arch", "test", "returned", "done", "failed"}
        /\ manifests = before
        /\ rest = entry
        /\ (pc \in {"test", "failed"} /\ image \notin images /\ ChecksOfCell # {})
              => /\ Cardinality(ChecksOfCell) = 1
                 /\ Last.data = image
                 /\ rc # 0
                 /\ Aborted

\* a test-only run on a store that holds an image of another date, aborted
\* by the first check of its first cell
C12_Witness ==
    /\ stages = {"test"}
    /\ Aborted
    /\ Len(calls) = 1
    /\ image \notin images
    /\ images # {}

\* every name on the command line is a name of its own dimension
NamesOfTheirKind ==
    /\ Range(argv.arches) \cup Range(argv.skip_arches) \subseteq all_arches
    /\ Range(argv.branches) \cup Range(argv.skip_branches) \subseteq all_branches
    /\ Range(argv.stages) \cup Range(argv.skip_stages) \subseteq all_stages

\* C13: for every selection A and skip list B of architectures, of branches
\* and of stages, the run goes on with exactly A minus B in each of the three
\* dimensions.
C13_SkipSetsSubtracted ==
    (pc # "parse_args" /\ NamesOfTheirKind) =>
        /\ pc # "rejected"
        /\ Range(arches) = Range(argv.arches) \ Range(argv.skip_arches)
        /\ Range(branches) = Range(argv.branches) \ Range(argv.skip_branches)
        /\ stages = Range(argv.stages) \ Range(argv.skip_stages)

\* the date YYYY-MM-DD written YYYY/MM/DD
Slashed(d) ==
    [i \in 1..10 |-> IF i \in {5, 8} THEN "/" ELSE Chars(d)[i]]

\* the text is the two lines of the cell: rpm <repo>/<branch>/date/<date>
\* <id> classic, with the mapped architecture id and then with noarch
TwoLinesOf(text, a, br, d) ==
    /\ Len(text) = 2
    /\ \A i \in 1..2 :
          /\ Len(text[i]) = 4
          /\ text[i][1] = "rpm"
          /\ text[i][2] = <<"http://ftp.altlinux.org/pub/distributions/archive",
                            br, "date", Slashed(d)>>
          /\ text[i][4] = "classic"
    /\ text[1][3] = ARCH_MAP[a]
    /\ text[1][3] \in {"x86_64", "i586", "aarch64", "armh", "ppc64le"}
    /\ text[2][3] = "noarch"

SourceListCalls ==
    {i \in DOMAIN calls : calls[i].op = "buildah run cat > alt.list"}

\* C14: for every cell of a well-formed date, the source list written for
\* the Tarball Builder and the one piped into the container are each exactly
\* two lines, the first with the mapped architecture id and the second with
\* noarch, both with the branch and the date as YYYY/MM/DD.
C14_SourceListText ==
    /\ (calls # <<>> /\ Last.op = "make")
          => TwoLinesOf(aptFiles.list, Last.arch, Last.branch, Last.date)
    /\ \A i \in SourceListCalls :
          TwoLinesOf(calls[i].data, calls[i].arch, calls[i].branch, calls[i].date)

\* both texts written for the cell (ppc64le, p9, 2024-02-29)
C14_Witness ==
    /\ calls # <<>>
    /\ Last.op = "buildah run cat > alt.list"
    /\ Last.arch = "ppc64le" /\ Last.branch = "p9" /\ Last.date = "2024-02-29"
    /\ Last.data = aptFiles.list
    /\ Last.data[1] =
          <<"rpm",
            <<"http://ftp.altlinux.org/pub/distributions/archive", "p9", "date",
              <<"2", "0", "2", "4", "/", "0", "2", "/", "2", "9">> >>,
            "ppc64le", "classic">>

\* the calls with this name made for architecture a in iteration k
CallsFor(k, a, op) ==
    {i \in DOMAIN calls :
        calls[i].pair = k /\ calls[i].arch = a /\ calls[i].op = op}

\* the architecture id the external builder knows the architecture by
BuilderId(a) ==
    CASE a = "amd64" -> "x86_64"
      [] a = "386" -> "i586"
      [] a = "arm64" -> "aarch64"
      [] a = "arm" -> "armh"
      [] a = "ppc64le" -> "ppc64le"

\* the cell of architecture a in iteration k was built: one make, with the
\* mapped architecture id and the branch of the cell, and after it one pass
\* of the Image Builder, which wrote the source list of the cell
BuiltOnce(k, a) ==
    /\ Cardinality(CallsFor(k, a, "make")) = 1
    /\ \A i \in CallsFor(k, a, "make") :
          calls[i].data = <<BuilderId(a), branches[((k - 1) \div Len(dates)) + 1]>>
    /\ \A op \in {"buildah from", "buildah add", "buildah run cat > alt.list",
                   "buildah commit"} :
          /\ Cardinality(CallsFor(k, a, op)) = 1
          /\ \A i \in CallsFor(k, a, op) : \A j \in CallsFor(k, a, "make") : j < i
    /\ \A i \in CallsFor(k, a, "buildah run cat > alt.list") :
          TwoLinesOf(calls[i].data, a, branches[((k - 1) \div Len(dates)) + 1],
                     dates[((k - 1) % Len(dates)) + 1])

\* C15: in a run of the stages build_tarball and build_image in which no
\* call fails, every cell the driver has finished, and every cell of the
\* matrix once build_all has returned, has had exactly one make (ARCH the
\* mapped id, BRANCH the branch of the cell) and one image build that wrote
\* the source list of the cell; no Verifier, push or clean call is made.
C15_TarballAndImageOnly ==
    (stages = {"build_tarball", "build_image"} /\ ok) =>
        /\ \A i \in DOMAIN calls :
              calls[i].op \notin {"podman run", "podman manifest push",
                                  "podman system prune"}
        /\ (pc = "for_arch" /\ ai >= 1) => BuiltOnce(PairNo, arch)
        /\ pc \in {"returned", "done"} =>
              \A k \in 1..NumPairs : \A a \in Range(arches) : BuiltOnce(k, a)
        /\ pc # "clean"

\* the run of the single cell amd64/p10/2024-01-15, over: its second call
\* was make ARCH=x86_64 BRANCH=p10
C15_Witness ==
    /\ stages = {"build_tarball", "build_image"}
    /\ ok
    /\ pc = "done"
    /\ arches = <<"amd64">> /\ branches = <<"p10">> /\ dates = <<"2024-01-15">>
    /\ calls[2].op = "make"
    /\ calls[2].data = <<"x86_64", "p10">>
    /\ Cardinality(CallsFor(1, "amd64", "make")) = 1
    /\ Last.op = "buildah commit"

\* the steps of the Image Builder for one cell, with and without a package
\* list
PackageSteps ==
    <<"buildah run apt-get update", "buildah run apt-get install",
      "buildah run rm -f">>
BuilderSteps ==
    <<"buildah image rm", "buildah rm", "buildah from", "buildah add",
      "buildah run true > limits", "buildah run cat > alt.list">>
        \o (IF packages THEN PackageSteps ELSE <<>>)
        \o <<"buildah config", "buildah commit">>

\* the calls the Image Builder has made for architecture a in iteration k
BuilderCalls(k, a) ==
    {i \in DOMAIN calls : /\ calls[i].pair = k
                          /\ calls[i].arch = a
                          /\ calls[i].op \in Range(BuilderSteps) \cup Range(PackageSteps)}

\* the last call, when it is the n-th call of the Image Builder for its
\* cell, is the n-th step of the list and follows the step before it at once
\* (every prefix of the log is the log of a reachable state, so this places
\* every call of the Image Builder)
LastStepInOrder ==
    (calls # <<>> /\ Last.op \in Range(BuilderSteps) \cup Range(PackageSteps)) =>
        LET n == Cardinality(BuilderCalls(Last.pair, Last.arch))
        IN /\ n <= Len(BuilderSteps)
           /\ Last.op = BuilderSteps[n]
           /\ n > 1 =>
                 /\ calls[Len(calls) - 1].op = BuilderSteps[n - 1]
                 /\ calls[Len(calls) - 1].pair = Last.pair
                 /\ calls[Len(calls) - 1].arch = Last.arch

\* C16: the calls of the Image Builder for a cell are, in this order: image
\* rm, container rm, from, add, the truncation of the limits file, the
\* source list, then apt-get update, apt-get install and the purge if and
\* only if a package list was given, then config, then commit; the Image
\* Builder leaves a cell only after all of them; and when commit has exited
\* zero the working container of the cell does not exist.
C16_ImageBuilderSteps ==
    /\ LastStepInOrder
    /\ (~packages) =>
          \A i \in DOMAIN calls : calls[i].op \notin Range(PackageSteps)
    /\ ("build_image" \in stages /\ ai >= 1
            /\ pc \in {"test", "for_arch", "push", "for_pair"})
          => Cardinality(BuilderCalls(PairNo, arch)) = Len(BuilderSteps)
    /\ (called = "buildah commit" /\ rc = 0) => Last.arch \notin containers

\* a cell built with a package list, every step of it having exited zero
C16_Witness ==
    /\ packages
    /\ ok
    /\ called = "buildah commit"
    /\ rc = 0
    /\ Cardinality(BuilderCalls(PairNo, arch)) = 11
    /\ arch \notin containers
    /\ image \in images

\* what a run of every stage in which no call fails has built when build_all
\* returns: the image of each of its cells, a manifest of one entry per
\* architecture in the order the run took them, and no working container
BuiltState ==
    /\ images \cap CellsOfRun = CellsOfRun
    /\ containers \cap Range(arches) = {}
    /\ \A p \in Entered :
          /\ manifests[p].exists
          /\ EntryArches(manifests[p]) = arches
          /\ \A i \in DOMAIN manifests[p].entries :
                manifests[p].entries[i][2] = run

\* and what it leaves when it is over, clean having pruned
CleanedState ==
    /\ images = {}
    /\ manifests = [p \in Pairs |-> NoManifest]
    /\ containers \cap Range(arches) = {}

\* a run started on a clean store, or a run given the inputs of the run
\* before it, which was halted
FirstOrRetry == run = 1 \/ (halted /\ same)

\* C17: a run of every stage in which no call fails ends in the same state
\* of its images, its manifests and its working containers whether it was
\* started on a clean store or after a run of the same inputs that was
\* halted part-way: at the return of build_all the state it has built, and
\* at its end the state clean leaves; and when the halted run was itself
\* started on a clean store, these are all the images and containers there
\* are.
C17_RetryAfterHalt ==
    (FirstOrRetry /\ stages = all_stages /\ ok) =>
        /\ pc = "returned" => BuiltState
        /\ (pc = "returned" /\ run <= 2) =>
              (images = CellsOfRun /\ containers = {})
        /\ pc = "done" => CleanedState
        /\ (pc = "done" /\ run <= 2) => containers = {}

\* the run after one that was halted with an image, a working container
\* and one of the two entries of the manifest left behind, at the return of
\* build_all
C17_Witness ==
    /\ run = 2
    /\ halted /\ same
    /\ stages = all_stages
    /\ ok
    /\ pc = "returned"
    /\ Len(arches) = 2
    /\ entry[1] # {}
    /\ entry[2] # {}
    /\ Len(before[manifest].entries) = 1
    /\ BuiltState

Removals == {"buildah manifest rm", "buildah image rm", "buildah rm"}

\* the program is at one of the three best-effort removals, and what it
\* is about to remove is there or not
AtRemoval == pc \in {"remove_manifest", "remove_image", "remove_container"}
TargetExists ==
    CASE pc = "remove_manifest" -> manifests[manifest].exists
      [] pc = "remove_image" -> image \in images
      [] pc = "remove_container" -> arch \in containers
      [] OTHER -> FALSE

\* the call that follows a removal in the log
FollowsRemoval(op) ==
    CASE op = "buildah image rm" -> "buildah rm"
      [] op = "buildah rm" -> "buildah from"
      [] op = "buildah manifest rm" ->
            IF "build_tarball" \in stages THEN "make" ELSE "buildah image rm"

\* C18: a best-effort removal exits nonzero exactly when there is nothing
\* to remove, and whether it does or not the step taken is the same: the
\* call is logged, the program goes on to the same place with the thing
\* absent and everything else as it was, and no failure is recorded; the run
\* is never aborted at a removal, and the call that follows a removal in
\* the log is the same call whatever the removal's exit status was.
C18_RemovalFailureIgnored ==
    /\ [](called \in Removals => ~Aborted)
    /\ []((Len(calls) >= 2 /\ calls[Len(calls) - 1].op \in Removals
              /\ arches # <<>>)
            => Last.op = FollowsRemoval(calls[Len(calls) - 1].op))
    /\ [][AtRemoval =>
            /\ rc' = (IF TargetExists THEN 0 ELSE 1)
            /\ pc' = (CASE pc = "remove_manifest" -> "for_arch"
                         [] pc = "remove_image" -> "remove_container"
                         [] pc = "remove_container" -> "from")
            /\ Len(calls') = Len(calls) + 1
            /\ called' \in Removals
            /\ ok' = ok
            /\ manifests' = [manifests EXCEPT ![manifest] =
                                IF pc = "remove_manifest" THEN NoManifest ELSE @]
            /\ images' = IF pc = "remove_image" THEN images \ {image} ELSE images
            /\ containers' = IF pc = "remove_container"
                             THEN containers \ {arch} ELSE containers
            /\ UNCHANGED <<args, tarballs, aptFiles, bi, di, ai, ti, history>>
         ]_vars

\* a run on a clean store, where every removal finds nothing to remove,
\* that went through every stage of two architectures with no other call
\* failing
C18_Witness ==
    /\ run = 1
    /\ pc = "done"
    /\ ok
    /\ stages = all_stages
    /\ Len(arches) = 2
    /\ Cardinality({i \in DOMAIN calls : calls[i].op \in Removals}) = 5

AddCalls == {i \in DOMAIN calls : calls[i].op = "buildah add"}
MakeCalls == {i \in DOMAIN calls : calls[i].op = "make"}
\* the adds that follow a make in the same cell
AddsAfter(i) ==
    {j \in AddCalls : /\ j > i
                      /\ calls[j].pair = calls[i].pair
                      /\ calls[j].arch = calls[i].arch}

\* C19 as claimed: every tarball that buildah add imports was built for the
\* cell of the add, and in a run that is over every make that wrote a
\* tarball was followed by exactly one add of its cell.
C19_TarballOfSameCell ==
    /\ \A i \in AddCalls :
          calls[i].data # NoCell
              => calls[i].data = <<calls[i].branch, calls[i].date>>
    /\ (pc = "done" /\ ok) =>
          \A i \in MakeCalls : Cardinality(AddsAfter(i)) = 1

\* C19 as amended: buildah add is handed whatever lies at the path of the
\* architecture; in a run that requests both build_tarball and build_image
\* that is the tarball make wrote for the same cell in this run, and a cell
\* the driver has finished has had one make and, after it, one add; in a
\* run that requests build_image alone it is the tarball, of whatever
\* branch and date, that was there when the run started.
C19_TarballOfSameRun ==
    /\ (calls # <<>> /\ Last.op = "buildah add")
          => Last.data = tarballs[Last.arch]
    /\ {"build_tarball", "build_image"} \subseteq stages =>
          /\ \A i \in AddCalls :
                /\ calls[i].data = <<calls[i].branch, calls[i].date>>
                /\ \E j \in MakeCalls : /\ j < i
                                         /\ calls[j].pair = calls[i].pair
                                         /\ calls[j].arch = calls[i].arch
          /\ \A i \in MakeCalls : Cardinality(AddsAfter(i)) <= 1
          /\ (pc = "for_arch" /\ ai >= 1) =>
                /\ Cardinality(CallsFor(PairNo, arch, "make")) = 1
                /\ \A i \in CallsFor(PairNo, arch, "make") :
                      Cardinality(AddsAfter(i)) = 1
    /\ "build_tarball" \notin stages =>
          /\ tarballs = entry[3]
          /\ \A i \in AddCalls : calls[i].data = entry[3][calls[i].arch]

\* a run of both stages that found the tarball of another date at the path
\* of its architecture, built its own over it and has just imported that
C19_Witness ==
    /\ {"build_tarball", "build_image"} \subseteq stages
    /\ calls # <<>>
    /\ Last.op = "buildah add"
    /\ Last.data = manifest
    /\ entry[3][arch] # NoCell
    /\ entry[3][arch] # manifest

\* the calls of the build_image stage
ImageStageCalls == Removals \cup Range(BuilderSteps) \cup Range(PackageSteps)

NoImageStageCall == \A i \in DOMAIN calls : calls[i].op \notin ImageStageCalls
NoTarballWritten ==
    /\ \A i \in DOMAIN calls : calls[i].op # "make"
    /\ aptFiles = entry[4]
    /\ tarballs = entry[3]

\* C20 as claimed: a run that does not request build_image makes no call of
\* that stage and leaves every manifest, image and working container as it
\* found them, and a run that does not request build_tarball writes neither
\* apt.conf nor source.list nor a tarball.
C20_StagesNotRequestedTouchNothing ==
    /\ "build_image" \notin stages =>
          /\ NoImageStageCall
          /\ manifests = before
          /\ images = entry[1]
          /\ containers = entry[2]
    /\ "build_tarball" \notin stages => NoTarballWritten

\* C20 as amended: the same, except that the prune of the clean stage, when
\* clean is requested and once it has run, removes images and manifests;
\* up to then they are as the run found them, and the working containers
\* are throughout.
C20_FrameUpToClean ==
    /\ "build_image" \notin stages =>
          /\ NoImageStageCall
          /\ containers = entry[2]
          /\ Prunes = {} => (manifests = before /\ images = entry[1])
          /\ Prunes # {} =>
                /\ "clean" \in stages
                /\ pc = "done"
                /\ images \in {entry[1], {}}
                /\ manifests \in {before, [p \in Pairs |-> NoManifest]}
    /\ "build_tarball" \notin stages => NoTarballWritten

\* a run of test and push alone, back from build_all, on a store where an
\* earlier run left the image and the manifest of the cell, the apt files
\* and a tarball
C20_Witness ==
    /\ stages = {"test", "push"}
    /\ pc = "returned"
    /\ Len(calls) = NumTestCommands + 1
    /\ <<branches[1], dates[1], arches[1]>> \in images
    /\ manifests[<<branches[1], dates[1]>>].exists
    /\ tarballs[arches[1]] # NoCell
    /\ aptFiles.conf

====
